---- MODULE Spec2Model ----
(***************************************************************************)
(* Model of the YouTube batch uploader: the orchestration loop of          *)
(* src/main.py (main) driving the upload workflow of                       *)
(* src/utility/uploader.py (YouTubeUploader.upload_video) against one      *)
(* browser session created by src/utility/driver.py (setup_driver).        *)
(*                                                                         *)
(* main.py calls upload_video(driver, video_path, index, total_videos);    *)
(* the workflow it names is YouTubeUploader(driver).upload_video.          *)
(* The browser and the file system are the environment: every element      *)
(* lookup, click, script and navigation draws its result from the set of   *)
(* results Selenium can give.                                              *)
(***************************************************************************)
EXTENDS Naturals, Sequences, FiniteSets, TLC

(***************************************************************************)
(* Bounds of the model.                                                    *)
(***************************************************************************)
\* longest directory listing explored
MaxDirLen == 3
\* number of scans (the first run plus restarts) explored
MaxRuns == 2
\* files beside the video in the specification of the resolvers
MaxSidecars == 3
\* calls of the resolvers that are followed
MaxCalls == 2
\* words of the longest description template, keywords of the longest list
MaxWords == 3
MaxKeywords == 2
\* characters of the longest and of a short second line of the tags file
MaxLine == 600
ShortLine == 100
\* characters of the longest text of the default tag chip
MaxChip == 4
\* set_video_tags: the characters it keeps of the tags
MaxTags == 460
\* the seconds the waits last at most: WebDriverWait(self.driver, 20) of
\* navigate_to_upload_page and select_video_file, timeout=300 of
\* wait_for_input_fields, timeout=10 of safe_find_element
ClickableTimeout == 20
ReadyTimeout == 300
DefaultTimeout == 10

(***************************************************************************)
(* Files.  A file name is a record of its basename and its extension       *)
(* (os.path.splitext).  The directory is the sequence os.listdir returns.  *)
(***************************************************************************)
File(n, e) == [name |-> n, ext |-> e]

\* Python's None where a path is expected
None == File("", "")

\* a text, as the sequence of its words, each with where it comes from:
\* << "template", 0 >>, << "keyword", k >> for the k-th keyword of the
\* list, << "title", 0 >>
Word(t, o) == [text |-> t, from |-> o]

\* a string of the tags step, as its segments: the text the segment is cut
\* from and the number of its characters
Segment(o, n) == [of |-> o, len |-> n]

Universe ==
    { File("a", ".mp4"), File("a", ".jpg"), File("a", ".txt"),
      File("b", ".mov"), File("c", ".avi") }

Range(s) == { s[i] : i \in 1..Len(s) }

Min(S) == CHOOSE x \in S : \A y \in S : x <= y

\* the listings of at most MaxDirLen distinct files
Dirs ==
    UNION { { s \in [1..n -> Universe] :
                \A i, j \in 1..n : i # j => s[i] # s[j] } : n \in 0..MaxDirLen }

\* one more file in the directory, at any place of the listing
Inserted(d, f) ==
    { SubSeq(d, 1, k) \o <<f>> \o SubSeq(d, k + 1, Len(d)) : k \in 0..Len(d) }

(***************************************************************************)
(* What the environment can answer.                                        *)
(***************************************************************************)
\* WebDriverWait(...).until: the element, or TimeoutException
WaitResults == { "found", "TimeoutException" }
\* a browser call (send_keys, clear, execute_script, webdriver.Chrome)
ActionResults == { "ok", "WebDriverException" }
\* driver.get: also the page-load timeout
GetResults == { "ok", "WebDriverException", "TimeoutException" }
\* element.click()
ClickResults == { "ok", "ElementClickInterceptedException", "WebDriverException" }
\* start_chrome_debugger: raises on an unsupported operating system
DebuggerResults == { "ok", "Exception" }
\* os.listdir of the videos folder
ListdirResults == { "ok", "FileNotFoundError" }
\* the label of the toggle button
Labels == { "Show more", "Show less" }
\* what the operator types at a prompt
Inputs == { "", "y", "yes", "n", "no", "Y", "No", "q" }

\* variant: the answer is compared as typed
lower_identity(s) == s

\* str.lower on the inputs above
lower(s) ==
    CASE s = "Y" -> "y"
      [] s = "No" -> "no"
      [] OTHER -> s

(***************************************************************************)
(* main.py: the directory scan.                                            *)
(***************************************************************************)
\* variant: one extension is forgotten
VideoExts_no_avi == { ".mp4", ".mov" }

VideoExts == { ".mp4", ".avi", ".mov" }

\* f.endswith((".mp4", ".avi", ".mov"))
endswith(f) == f.ext \in VideoExts

\* the list comprehension of main.py
scan(d) == SelectSeq(d, endswith)

(***************************************************************************)
(* uploader.py: the sidecar resolvers.                                     *)
(***************************************************************************)
\* variant: .png is tried before .jpg
ThumbnailExts_png_first == << ".png", ".jpg", ".jpeg", ".gif" >>

ThumbnailExts == << ".jpg", ".jpeg", ".png", ".gif" >>

TextExts == << ".txt", ".md", ".json" >>

\* the loop "for ext in exts: if os.path.exists(...): return ..." over directory d
first_existing(d, video_path, exts) ==
    LET hits == { i \in 1..Len(exts) : File(video_path.name, exts[i]) \in Range(d) }
    IN IF hits = {} THEN None ELSE File(video_path.name, exts[Min(hits)])

find_thumbnail(d, video_path) == first_existing(d, video_path, ThumbnailExts)

find_keywords(d, video_path) == first_existing(d, video_path, TextExts)

\* variant: the tags are looked for in the .md file first
find_tags_md_first(d, video_path) ==
    first_existing(d, video_path, << ".md", ".txt", ".json" >>)

find_tags(d, video_path) == first_existing(d, video_path, TextExts)

(***************************************************************************)
(* uploader.py: the element access layer.                                  *)
(***************************************************************************)
\* variant: the wait's TimeoutException is not caught
safe_find_element_raising(w) ==
    IF w = "TimeoutException" THEN "TimeoutException" ELSE "element"

\* the wait's TimeoutException is caught and None returned
safe_find_element(w) == IF w = "TimeoutException" THEN "None" ELSE "element"

\* the direct click c, and the scripted click s when c was intercepted:
\* "ok", or the exception that leaves safe_click
safe_click(c, s) == IF c = "ElementClickInterceptedException" THEN s ELSE c

(***************************************************************************)
(* uploader.py: the steps of the workflow.  Each gives a record: exc, the  *)
(* exception that leaves the method ("ok" when it returns); missing, the   *)
(* elements it looked up and did not find; error, whether a browser call   *)
(* raised; applied, what it wrote to the console.                          *)
(***************************************************************************)
R(exc, miss, err, app) ==
    [exc |-> exc, missing |-> miss, error |-> err, applied |-> app]

Returned == R("ok", {}, FALSE, {})

navigate_to_upload_page(get, create, c1, s1, upload, c2, s2) ==
    IF get # "ok" THEN R(get, {}, TRUE, {})
    ELSE IF create = "TimeoutException"
    THEN R("TimeoutException", {"create_button"}, FALSE, {})
    ELSE IF safe_click(c1, s1) # "ok" THEN R(safe_click(c1, s1), {}, TRUE, {})
    ELSE IF upload = "TimeoutException"
    THEN R("TimeoutException", {"upload_option"}, FALSE, {})
    ELSE IF safe_click(c2, s2) # "ok" THEN R(safe_click(c2, s2), {}, TRUE, {})
    ELSE Returned

\* variant: a file input that is not found is tolerated
select_video_file_soft(file_input, send) ==
    IF file_input = "TimeoutException" THEN R("ok", {"file_input"}, FALSE, {})
    ELSE IF send # "ok" THEN R(send, {}, TRUE, {})
    ELSE Returned

select_video_file(file_input, send) ==
    IF file_input = "TimeoutException"
    THEN R("TimeoutException", {"file_input"}, FALSE, {})
    ELSE IF send # "ok" THEN R(send, {}, TRUE, {})
    ELSE Returned

wait_for_input_fields(next_button) ==
    IF safe_find_element(next_button) = "None"
    THEN R("Exception", {"next_button"}, FALSE, {})
    ELSE Returned

set_video_title(title_input, clear, send) ==
    IF safe_find_element(title_input) = "None"
    THEN R("ok", {"title_input"}, FALSE, {})
    ELSE IF clear # "ok" THEN R(clear, {}, TRUE, {})
    ELSE IF send # "ok" THEN R(send, {}, TRUE, {})
    ELSE R("ok", {}, FALSE, {"title"})

\* open(keywords_path) with keywords_path None raises TypeError; with the
\* field not found the local "description" is never bound and
\* description.replace raises UnboundLocalError; text is the description
\* after the replacements, "" when it is empty
set_video_description(keywords_path, description_input, text, script) ==
    IF keywords_path = None THEN R("TypeError", {}, FALSE, {})
    ELSE IF safe_find_element(description_input) = "None"
    THEN R("UnboundLocalError", {"description_input"}, FALSE, {})
    ELSE IF text = "" THEN Returned
    ELSE IF script # "ok" THEN R(script, {}, TRUE, {})
    ELSE R("ok", {}, FALSE, {"description"})

focus_upload_dialog(upload_dialog, script) ==
    IF safe_find_element(upload_dialog) = "None"
    THEN R("ok", {"upload_dialog"}, FALSE, {})
    ELSE IF script # "ok" THEN R(script, {}, TRUE, {})
    ELSE Returned

upload_thumbnail(thumbnail_path, thumbnail_input, send) ==
    IF thumbnail_path = None THEN Returned
    ELSE IF safe_find_element(thumbnail_input) = "None"
    THEN R("ok", {"thumbnail_input"}, FALSE, {})
    ELSE IF send # "ok" THEN R(send, {}, TRUE, {})
    ELSE R("ok", {}, FALSE, {"thumbnail"})

\* the scripted click on the toggle is in a try of its own; reading the
\* label (get_attribute, find_element) is not
expand_more_options(show_more_button, read, label) ==
    IF safe_find_element(show_more_button) = "None"
    THEN R("ok", {"show_more_button"}, FALSE, {})
    ELSE IF read # "ok" THEN R(read, {}, TRUE, {})
    ELSE IF label = "Show more" THEN R("ok", {}, FALSE, {"expanded"})
    ELSE Returned

\* the body of the try of set_video_tags after expand_more_options:
\* lines is the number of lines of the tags file
tags_body(tags_path, lines, chip, delete_icon, c, s, tags_input, write) ==
    LET del == IF safe_find_element(chip) = "None" THEN {"default_tag_text"}
               ELSE IF safe_find_element(delete_icon) = "None" THEN {"delete_icon"}
               ELSE {}
        clicked == safe_find_element(chip) # "None"
                   /\ safe_find_element(delete_icon) # "None"
    IN IF tags_path = None THEN R("TypeError", {}, FALSE, {})
       ELSE IF lines = 0 THEN R("StopIteration", {}, FALSE, {})
       ELSE IF clicked /\ safe_click(c, s) # "ok"
       THEN R(safe_click(c, s), {}, TRUE, {})
       ELSE IF safe_find_element(tags_input) = "None"
       THEN R("ok", del \cup {"tags_input"}, FALSE, {})
       ELSE IF write # "ok" THEN R(write, del, TRUE, {})
       ELSE R("ok", del, FALSE, {"tags"})

\* "except Exception" of set_video_tags: nothing leaves the method
set_video_tags(e, b) ==
    IF e.exc # "ok" THEN R("ok", e.missing, e.error, e.applied)
    ELSE R("ok", e.missing \cup b.missing, b.error, e.applied \cup b.applied)

(***************************************************************************)
(* uploader.py: the methods as the calls they make to the browser, one     *)
(* after the other.  A wait lasts for the seconds of its timeout at most;  *)
(* its element is there from some second on, or never.                     *)
(***************************************************************************)
Op(k, e, t) == [kind |-> k, element |-> e, timeout |-> t]

\* the statements of the methods followed call by call; "until" is
\* WebDriverWait(...).until, "require" the "if not next_button: raise" of
\* wait_for_input_fields, "type" the "if title_input:" branch of
\* set_video_title
statements(m) ==
    IF m = "navigate_to_upload_page"
    THEN << Op("until", "create_button", ClickableTimeout),
            Op("safe_click", "create_button", 0),
            Op("until", "upload_option", ClickableTimeout),
            Op("safe_click", "upload_option", 0) >>
    ELSE IF m = "wait_for_input_fields"
    THEN << Op("safe_find_element", "next_button", ReadyTimeout),
            Op("require", "next_button", 0) >>
    ELSE IF m = "set_video_title"
    THEN << Op("safe_find_element", "title_input", DefaultTimeout),
            Op("type", "title_input", 0) >>
    ELSE << >>

\* variant: the upload page is not navigated to before its elements are
\* looked up
plan_no_get(m) == statements(m)

\* the calls of a method in order: navigate_to_upload_page begins with
\* driver.get(STUDIO_URL)
plan(m) ==
    IF m = "navigate_to_upload_page"
    THEN << Op("get", "STUDIO_URL", 0) >> \o statements(m)
    ELSE statements(m)

\* the seconds at which the element of a wait of t seconds may be there:
\* at once, after a second, at the last second, never (t + 1)
RenderTimes(t) == { 0, 1, t, t + 1 }

\* variant: the wait goes on until the element is there
until_unbounded(t, c, r) == IF r <= c THEN "found" ELSE "wait"

\* what a wait of t seconds gives at second c for an element there from
\* second r on: nothing yet (wait on), found, TimeoutException
until(t, c, r) ==
    IF r <= c THEN "found" ELSE IF c >= t THEN "TimeoutException" ELSE "wait"

Made(c, e, r) == [call |-> c, on |-> e, result |-> r]

\* variant: the scripted click is issued whatever the click did
safe_click_calls_both(e, c, s) ==
    << Made("click", e, c), Made("script_click", e, s) >>

\* the calls safe_click makes to the browser for element e
safe_click_calls(e, c, s) ==
    IF c = "ElementClickInterceptedException"
    THEN << Made("click", e, c), Made("script_click", e, s) >>
    ELSE << Made("click", e, c) >>

(***************************************************************************)
(* uploader.py: the text set_video_description writes.  A text is the      *)
(* sequence of its words; a placeholder, a keyword and the title are one   *)
(* word each.                                                              *)
(***************************************************************************)
\* d.replace(old, new): every occurrence of old
replace(d, old, new, origin) ==
    [i \in 1..Len(d) |-> IF d[i].text = old THEN Word(new, origin) ELSE d[i]]

RECURSIVE replace_keywords(_, _, _)
\* for keyword in seo_keywords: description = description.replace("KEYWORD",
\* keyword), from the k-th keyword on
replace_keywords(d, keywords, k) ==
    IF k > Len(keywords) THEN d
    ELSE replace_keywords(replace(d, "KEYWORD", keywords[k], << "keyword", k >>),
                          keywords, k + 1)

\* the description after the two replacements
substitute(d, keywords, title) ==
    replace(replace_keywords(d, keywords, 1), "TITLE", title, << "title", 0 >>)

\* the text is the empty string: "if description:" fails
empty(d) == d = << >> \/ (Len(d) = 1 /\ d[1].text = "")

(***************************************************************************)
(* uploader.py: the string set_video_tags writes.  A string is the         *)
(* sequence of its segments, [of |-> the text it is cut from, len |-> the  *)
(* number of its characters]; a segment is always cut from the start of    *)
(* its text.                                                               *)
(***************************************************************************)
RECURSIVE Chars(_)
\* len(t)
Chars(t) == IF t = << >> THEN 0 ELSE t[1].len + Chars(Tail(t))

RECURSIVE Slice(_, _)
\* t[:n]
Slice(t, n) ==
    IF t = << >> \/ n = 0 THEN << >>
    ELSE IF t[1].len >= n THEN << Segment(t[1].of, n) >>
    ELSE << t[1] >> \o Slice(Tail(t), n - t[1].len)

\* whether the default chip is clicked away and its text put before the tags
deleted(tags_path, lines, chip, delete_icon, c, s) ==
    /\ tags_path # None
    /\ lines # 0
    /\ safe_find_element(chip) # "None"
    /\ safe_find_element(delete_icon) # "None"
    /\ safe_click(c, s) = "ok"

\* tags = f"{default_tag}, {tags}" when the chip was clicked away
tags_text(line, default, del) ==
    IF del THEN default \o << Segment("separator", 2) >> \o line
    ELSE line

\* variant: the limit that the comment of the code names
truncate_500(tags) == IF Chars(tags) > 500 THEN Slice(tags, 500) ELSE tags

\* if len(tags) > 460: tags = tags[:460]
truncate(tags) == IF Chars(tags) > MaxTags THEN Slice(tags, MaxTags) ELSE tags

(***************************************************************************)
(* uploader.py: upload_video.                                              *)
(***************************************************************************)
\* variant: the description is set before the title
Body_swapped ==
    << "navigate_to_upload_page", "select_video_file", "wait_for_input_fields",
       "set_video_description", "set_video_title", "focus_upload_dialog",
       "upload_thumbnail", "set_video_tags", "finalize" >>

\* the statements of the try block, in the order they are written; the
\* last one is the print of "uploaded!" and the navigation back
Body ==
    << "navigate_to_upload_page", "select_video_file", "wait_for_input_fields",
       "set_video_title", "set_video_description", "focus_upload_dialog",
       "upload_thumbnail", "set_video_tags", "finalize" >>

\* the statement after statement cur
next_step(cur) ==
    Body[(CHOOSE i \in 1..Len(Body) : Body[i] = cur) + 1]

\* the methods entered by statement cur, in the order they are entered
entered(cur) ==
    IF cur = "set_video_tags" THEN << "set_video_tags", "expand_more_options" >>
    ELSE << cur >>

\* the exception classes of the model; all derive from Exception
Exceptions ==
    { "TimeoutException", "WebDriverException", "Exception", "TypeError",
      "UnboundLocalError", "StopIteration" }

\* variant: only "except TimeoutException"
handler_timeout_only(exc) ==
    IF exc = "TimeoutException" THEN "Timeout" ELSE "propagate"

\* variant: "except WebDriverException" in place of "except Exception"
handler_webdriver_only(exc) ==
    IF exc = "TimeoutException" THEN "Timeout"
    ELSE IF exc = "WebDriverException" THEN "Failed"
    ELSE "propagate"

\* the except clauses: "except TimeoutException" first, then
\* "except Exception"; anything else leaves upload_video
handler(exc) ==
    IF exc = "TimeoutException" THEN "Timeout"
    ELSE IF exc \in Exceptions THEN "Failed"
    ELSE "propagate"

\* what each except clause prints
message(outcome) ==
    IF outcome = "Timeout" THEN "Timeout error" ELSE "Error uploading video"

(***************************************************************************)
(* driver.py: setup_driver.  The handle is created by webdriver.Chrome;    *)
(* when the navigation that follows raises, None is returned.              *)
(***************************************************************************)
setup_driver(chrome, get) ==
    IF chrome # "ok" THEN [ret |-> "None", session |-> "none"]
    ELSE IF get # "ok" THEN [ret |-> "None", session |-> "open"]
    ELSE [ret |-> "handle", session |-> "open"]

\* main.py, finally: "driver" in locals() and driver
should_quit(d) == d = "handle"

\* variant: the loop steps over a video
next_index_skip(i) == i + 2

\* enumerate(video_files, start=1): the index of the next video
next_index(i) == i + 1

\* variant: a video that was uploaded is not listed again
queue_skip_uploaded(d, u) ==
    LET fresh(f) == f # u.video IN SelectSeq(scan(d), fresh)

\* the list of a run: made from the listing alone; what earlier runs have
\* uploaded (u) does not enter it
queue(d, u) == scan(d)

\* u when the call of upload_video for video in run r has ended with
\* outcome: a video uploaded is noted when none is
first_uploaded(u, outcome, video, r) ==
    IF outcome = "Success" /\ u.video = None THEN [video |-> video, run |-> r]
    ELSE u

\* u when upload_video is called with video: a video is noted until it is
\* passed to upload_video again
called_again(u, video) ==
    IF u.video = video THEN [video |-> None, run |-> 0] ELSE u

\* variant: the workflow quits the browser when it is done with a video
upload_session_quit(s) == "closed"

\* the browser session s after a call of upload_video: self.driver is used
\* for get, execute_script and the waits, and never quit, closed or rebound
upload_session(s) == s

(***************************************************************************)
(* State.                                                                  *)
(***************************************************************************)
VARIABLES
    pc,            \* where main is: start, scan, loop, upload, exit_prompt,
                   \* restart_prompt, done; resolve, describe, tags where
                   \* one call of upload_video is followed by itself
    driver,        \* main's local "driver": unbound, None or handle
    session,       \* the browser handle webdriver.Chrome made: none, open, closed
    quits,         \* number of driver.quit() calls
    mainError,     \* what main's "except Exception" caught: none, setup,
                   \* listdir, upload
    dir,           \* the listing of the videos folder
    run,           \* number of scans so far
    video_files,   \* main's list of this run
    index,         \* main's loop index
    step,          \* the statement of upload_video to run next, or Idle
    paths,         \* upload_video's thumbnail_path, keywords_path, tags_path
    trace,         \* the methods entered by this invocation, in order
    missing,       \* the elements this invocation did not find
    browserError,  \* whether a browser call raised in this invocation
    applied,       \* what this invocation wrote to the console
    attempts,      \* the videos upload_video was called with, this run
    outcomes,      \* how each call of this run ended: Success, Timeout, Failed
    printed,       \* the result lines printed this run: <<index, line>>
    answer,        \* the last answer of the operator: the prompt and the text
    added,         \* a video added to the folder between two scans: pending
                   \* (not listed yet), listed (the scan just made has listed
                   \* it), else none
    template,      \* the innerText of the description field
    seo_keywords,  \* the keywords of the first line of the sidecar
    video_title,   \* the title derived from the file name
    description,   \* the text written to the description field
    second_line,   \* the second line of the tags sidecar
    default_tag,   \* the text of the default tag chip
    default_chip,  \* the default tag chip: absent, present or removed
    tags_value,    \* the value written to the tags input
    uploaded,      \* a video that a call of upload_video has uploaded and
                   \* that was not passed to upload_video again since, and
                   \* the run it was uploaded in
    at,            \* the place in the plan of the method followed call by call
    clock,         \* the seconds the wait in progress, or the last wait, has
                   \* lasted
    renders,       \* the second of that wait at which its element is there
    found,         \* what the last lookup returned: element or None
    calls,         \* the calls made to the browser by the method followed
    console        \* the page of the console: landing, dialog (opened by this
                   \* call of upload_video), stale (the page as an earlier
                   \* call that failed has left it, its dialog open or not)

vars ==
    << pc, driver, session, quits, mainError, dir, run, video_files, index,
       step, paths, trace, missing, browserError, applied, attempts, outcomes,
       printed, answer, added, template, seo_keywords, video_title,
       description, second_line, default_tag, default_chip, tags_value,
       uploaded, at, clock, renders, found, calls, console >>

prompting == << answer, added >>

browser == << at, clock, renders, found, calls, console >>

\* no video uploaded yet
NotUploaded == [video |-> None, run |-> 0]

\* the state of the browser variables where no method is followed call by
\* call
NoBrowser ==
    /\ at = 0
    /\ clock = 0
    /\ renders = 0
    /\ found = "none"
    /\ calls = << >>
    /\ console = "landing"

texts ==
    << template, seo_keywords, video_title, description, second_line,
       default_tag, default_chip, tags_value >>

\* no answer yet
NoAnswer == [prompt |-> "none", typed |-> ""]

\* the state of the text variables where the texts are not followed
NoTexts ==
    /\ template = << >>
    /\ seo_keywords = << >>
    /\ video_title = ""
    /\ description = << >>
    /\ second_line = << >>
    /\ default_tag = << >>
    /\ default_chip = "absent"
    /\ tags_value = << >>

orchestrator == << pc, driver, session, quits, mainError >>

invocation == << step, paths, trace, missing, browserError, applied >>

history == << attempts, outcomes, printed >>

NoPaths == [thumbnail_path |-> None, keywords_path |-> None, tags_path |-> None]

Init ==
    /\ pc = "start"
    /\ driver = "unbound"
    /\ session = "none"
    /\ quits = 0
    /\ mainError = "none"
    /\ dir \in Dirs
    /\ run = 0
    /\ video_files = << >>
    /\ index = 0
    /\ step = "Idle"
    /\ paths = NoPaths
    /\ trace = << >>
    /\ missing = {}
    /\ browserError = FALSE
    /\ applied = {}
    /\ attempts = << >>
    /\ outcomes = << >>
    /\ printed = << >>
    /\ answer = NoAnswer
    /\ added = "none"
    /\ NoTexts
    /\ uploaded = NotUploaded
    /\ NoBrowser

(***************************************************************************)
(* main.py: main.                                                          *)
(***************************************************************************)
\* the finally clause, reached with local driver d and browser session s;
\* main returns after it
Finally(d, s) ==
    /\ pc' = "done"
    /\ driver' = d
    /\ IF should_quit(d)
       THEN session' = "closed" /\ quits' = quits + 1
       ELSE session' = s /\ quits' = quits

\* start_chrome_debugger(), driver = setup_driver(), if not driver: raise
Setup ==
    /\ pc = "start"
    /\ \E dbg \in DebuggerResults, chrome \in ActionResults, get \in GetResults :
         LET r == setup_driver(chrome, get)
         IN IF dbg # "ok"
            THEN mainError' = "setup" /\ Finally("unbound", "none")
            ELSE IF r.ret = "None"
            THEN mainError' = "setup" /\ Finally("None", r.session)
            ELSE /\ pc' = "scan"
                 /\ driver' = r.ret
                 /\ session' = r.session
                 /\ UNCHANGED << quits, mainError >>
    /\ UNCHANGED << dir, run, video_files, index >>
    /\ UNCHANGED invocation
    /\ UNCHANGED history
    /\ UNCHANGED prompting
    /\ UNCHANGED texts
    /\ UNCHANGED browser
    /\ UNCHANGED uploaded

\* the head of "while True": os.listdir and the filter
Scan ==
    /\ pc = "scan"
    /\ \E listed \in ListdirResults :
         IF listed # "ok"
         THEN /\ mainError' = "listdir"
              /\ Finally(driver, session)
              /\ UNCHANGED << run, video_files, index >>
              /\ UNCHANGED history
              /\ UNCHANGED prompting
         ELSE /\ pc' = "loop"
              /\ run' = run + 1
              /\ video_files' = queue(dir, uploaded)
              /\ index' = 1
              /\ attempts' = << >>
              /\ outcomes' = << >>
              /\ printed' = << >>
              /\ answer' = NoAnswer
              /\ added' = IF added = "pending" THEN "listed" ELSE "none"
              /\ UNCHANGED << driver, session, quits, mainError >>
    /\ UNCHANGED dir
    /\ UNCHANGED invocation
    /\ UNCHANGED texts
    /\ UNCHANGED browser
    /\ UNCHANGED uploaded

\* the for loop calls upload_video, which resolves the sidecars
CallUpload ==
    /\ pc = "loop"
    /\ index <= Len(video_files)
    /\ pc' = "upload"
    /\ attempts' = Append(attempts, video_files[index])
    /\ paths' = [thumbnail_path |-> find_thumbnail(dir, video_files[index]),
                 keywords_path |-> find_keywords(dir, video_files[index]),
                 tags_path |-> find_tags(dir, video_files[index])]
    /\ step' = Body[1]
    /\ trace' = << >>
    /\ missing' = {}
    /\ browserError' = FALSE
    /\ applied' = {}
    /\ UNCHANGED << driver, session, quits, mainError, dir, run, video_files,
                    index, outcomes, printed, answer >>
    /\ added' = "none"
    /\ UNCHANGED texts
    /\ UNCHANGED browser
    /\ uploaded' = called_again(uploaded, video_files[index])

\* the for loop is exhausted: "NO MORE VIDEOS TO UPLOAD."; the locals of the
\* last call of upload_video are gone
FinishBatch ==
    /\ pc = "loop"
    /\ index > Len(video_files)
    /\ pc' = "exit_prompt"
    /\ step' = "Idle"
    /\ paths' = NoPaths
    /\ trace' = << >>
    /\ missing' = {}
    /\ browserError' = FALSE
    /\ applied' = {}
    /\ UNCHANGED << driver, session, quits, mainError, dir, run, video_files,
                    index >>
    /\ UNCHANGED history
    /\ UNCHANGED answer
    /\ added' = "none"
    /\ UNCHANGED texts
    /\ UNCHANGED browser
    /\ UNCHANGED uploaded

(***************************************************************************)
(* uploader.py: how a statement of upload_video's try block ends.          *)
(***************************************************************************)
\* upload_video returns to the for loop with the given outcome
Return(outcome, log) ==
    /\ pc' = "loop"
    /\ index' = next_index(index)
    /\ step' = "Idle"
    /\ outcomes' = Append(outcomes, outcome)
    /\ printed' = log
    /\ session' = upload_session(session)
    /\ uploaded' = first_uploaded(uploaded, outcome, video_files[index], run)
    /\ UNCHANGED << driver, quits, mainError >>

\* exception exc is raised in the try block, log being what is printed so far
Raise(exc, log) ==
    IF handler(exc) = "propagate"
    THEN /\ mainError' = "upload"
         /\ Finally(driver, session)
         /\ step' = "Idle"
         /\ printed' = log
         /\ UNCHANGED << index, outcomes, uploaded >>
    ELSE Return(handler(exc), Append(log, << index, message(handler(exc)) >>))

\* statement step has run with result r
Run(r) ==
    /\ trace' = trace \o entered(step)
    /\ missing' = missing \cup r.missing
    /\ browserError' = (browserError \/ r.error)
    /\ applied' = applied \cup r.applied
    /\ IF r.exc = "ok"
       THEN /\ step' = next_step(step)
            /\ UNCHANGED << pc, driver, session, quits, mainError, index,
                            outcomes, printed, uploaded >>
       ELSE Raise(r.exc, printed)
    /\ UNCHANGED << dir, run, video_files, paths, attempts >>
    /\ UNCHANGED prompting
    /\ UNCHANGED texts
    /\ UNCHANGED browser

NavigateToUploadPage ==
    /\ pc = "upload"
    /\ step = "navigate_to_upload_page"
    /\ \E r \in { navigate_to_upload_page(get, create, c1, s1, upload, c2, s2) :
                    get \in GetResults, create \in WaitResults,
                    upload \in WaitResults, c1 \in ClickResults,
                    c2 \in ClickResults, s1 \in ActionResults,
                    s2 \in ActionResults } :
         Run(r)

SelectVideoFile ==
    /\ pc = "upload"
    /\ step = "select_video_file"
    /\ \E file_input \in WaitResults, send \in ActionResults :
         Run(select_video_file(file_input, send))

WaitForInputFields ==
    /\ pc = "upload"
    /\ step = "wait_for_input_fields"
    /\ \E next_button \in WaitResults :
         Run(wait_for_input_fields(next_button))

SetVideoTitle ==
    /\ pc = "upload"
    /\ step = "set_video_title"
    /\ \E title_input \in WaitResults, clear \in ActionResults,
          send \in ActionResults :
         Run(set_video_title(title_input, clear, send))

SetVideoDescription ==
    /\ pc = "upload"
    /\ step = "set_video_description"
    /\ \E description_input \in WaitResults, text \in { "", "text" },
          script \in ActionResults :
         Run(set_video_description(paths.keywords_path, description_input,
                                   text, script))

FocusUploadDialog ==
    /\ pc = "upload"
    /\ step = "focus_upload_dialog"
    /\ \E upload_dialog \in WaitResults, script \in ActionResults :
         Run(focus_upload_dialog(upload_dialog, script))

UploadThumbnail ==
    /\ pc = "upload"
    /\ step = "upload_thumbnail"
    /\ \E thumbnail_input \in WaitResults, send \in ActionResults :
         Run(upload_thumbnail(paths.thumbnail_path, thumbnail_input, send))

SetVideoTags ==
    /\ pc = "upload"
    /\ step = "set_video_tags"
    /\ \E r \in { set_video_tags(
                      expand_more_options(show_more_button, read, label),
                      tags_body(paths.tags_path, lines, chip, delete_icon, c, s,
                                tags_input, write)) :
                    show_more_button \in WaitResults, read \in ActionResults,
                    label \in Labels, lines \in 0..2, chip \in WaitResults,
                    delete_icon \in WaitResults, c \in ClickResults,
                    s \in ActionResults, tags_input \in WaitResults,
                    write \in ActionResults } :
         Run(r)

\* print "uploaded!", then driver.get(STUDIO_URL); the try block is over
Finalize ==
    /\ pc = "upload"
    /\ step = "finalize"
    /\ trace' = trace \o entered(step)
    /\ \E get \in GetResults :
         /\ browserError' = (browserError \/ get # "ok")
         /\ IF get = "ok"
            THEN Return("Success", Append(printed, << index, "uploaded" >>))
            ELSE Raise(get, Append(printed, << index, "uploaded" >>))
    /\ UNCHANGED << dir, run, video_files, paths, missing, applied, attempts >>
    /\ UNCHANGED prompting
    /\ UNCHANGED texts
    /\ UNCHANGED browser

(***************************************************************************)
(* main.py: the prompts.                                                   *)
(***************************************************************************)
\* variant: what is not understood counts as yes
Yes_default == { "", "y", "yes", "q" }

Yes == { "", "y", "yes" }

No == { "n", "no" }

\* "Do you want to exit? ([y]/n): "
ExitPrompt ==
    /\ pc = "exit_prompt"
    /\ \E typed \in Inputs :
         LET choice == lower(typed)
         IN /\ answer' = [prompt |-> "exit", typed |-> typed]
            /\ IF choice \in Yes
               THEN Finally(driver, session)
               ELSE IF choice \in No
               THEN pc' = "restart_prompt" /\ UNCHANGED << driver, session, quits >>
               ELSE UNCHANGED << pc, driver, session, quits >>
    /\ UNCHANGED << mainError, dir, run, video_files, index, added >>
    /\ UNCHANGED invocation
    /\ UNCHANGED history
    /\ UNCHANGED texts
    /\ UNCHANGED browser
    /\ UNCHANGED uploaded

\* "Do you want to start YouTube Uploader again? ([y]/n): "; an answer that
\* is neither yes nor no goes back to the exit prompt
RestartPrompt ==
    /\ pc = "restart_prompt"
    /\ \E typed \in Inputs :
         LET restart == lower(typed)
         IN /\ answer' = [prompt |-> "restart", typed |-> typed]
            /\ IF restart \in Yes
               THEN /\ run < MaxRuns
                    /\ pc' = "scan"
                    /\ UNCHANGED << driver, session, quits >>
               ELSE IF restart \in No
               THEN Finally(driver, session)
               ELSE pc' = "exit_prompt" /\ UNCHANGED << driver, session, quits >>
    /\ UNCHANGED << mainError, dir, run, video_files, index, added >>
    /\ UNCHANGED invocation
    /\ UNCHANGED history
    /\ UNCHANGED texts
    /\ UNCHANGED browser
    /\ UNCHANGED uploaded

(***************************************************************************)
(* The environment: a file is added to the videos folder between runs.     *)
(***************************************************************************)
AddFile ==
    /\ pc = "exit_prompt"
    /\ run < MaxRuns
    /\ Len(dir) < MaxDirLen
    /\ \E f \in Universe \ Range(dir) :
         /\ dir' \in Inserted(dir, f)
         /\ added' = IF f.ext \in { ".mp4", ".avi", ".mov" } THEN "pending" ELSE added
    /\ UNCHANGED << run, video_files, index >>
    /\ UNCHANGED orchestrator
    /\ UNCHANGED invocation
    /\ UNCHANGED history
    /\ UNCHANGED answer
    /\ UNCHANGED texts
    /\ UNCHANGED browser
    /\ UNCHANGED uploaded

Next ==
    \/ Setup
    \/ Scan
    \/ CallUpload
    \/ FinishBatch
    \/ NavigateToUploadPage
    \/ SelectVideoFile
    \/ WaitForInputFields
    \/ SetVideoTitle
    \/ SetVideoDescription
    \/ FocusUploadDialog
    \/ UploadThumbnail
    \/ SetVideoTags
    \/ Finalize
    \/ ExitPrompt
    \/ RestartPrompt
    \/ AddFile

Spec == Init /\ [][Next]_vars

TypeOK ==
    /\ pc \in { "start", "scan", "loop", "upload", "exit_prompt",
                "restart_prompt", "done", "resolve", "describe", "tags",
                "browser" }
    /\ driver \in { "unbound", "None", "handle" }
    /\ session \in { "none", "open", "closed" }
    /\ step \in Range(Body) \cup { "Idle" }

(***************************************************************************)
(* uploader.py: the resolvers, called on every folder.                     *)
(*                                                                         *)
(* The folder holds up to MaxSidecars files: the video a.mp4, files with   *)
(* its basename and the extensions the resolvers look for, b.jpg; the      *)
(* resolvers are called in any order, and files may appear between calls.  *)
(* trace holds the calls: the resolver, the folder it saw and its result.  *)
(***************************************************************************)
SidecarUniverse ==
    { File("a", e) : e \in { ".mp4", ".jpg", ".jpeg", ".png", ".gif",
                             ".txt", ".md", ".json" } }
      \cup { File("b", ".jpg") }

SidecarDirs ==
    UNION { { d \in [1..n -> SidecarUniverse] :
                \A i, j \in 1..n : i # j => d[i] # d[j] } : n \in 0..MaxSidecars }

Call(c, d, r) == [call |-> c, listing |-> Range(d), result |-> r]

\* the state of main while one call of upload_video, with a.mp4, is
\* followed at place p
Called(p) ==
    /\ pc = p
    /\ driver = "handle"
    /\ session = "open"
    /\ quits = 0
    /\ mainError = "none"
    /\ run = 1
    /\ video_files = << File("a", ".mp4") >>
    /\ index = 1
    /\ missing = {}
    /\ browserError = FALSE
    /\ applied = {}
    /\ attempts = << File("a", ".mp4") >>
    /\ outcomes = << >>
    /\ printed = << >>
    /\ answer = NoAnswer
    /\ added = "none"
    /\ uploaded = NotUploaded

SidecarInit ==
    /\ Called("resolve")
    /\ step = "Idle"
    /\ NoBrowser
    /\ dir \in SidecarDirs
    /\ paths = NoPaths
    /\ trace = << >>
    /\ NoTexts

SidecarFrame ==
    UNCHANGED << pc, driver, session, quits, mainError, run, video_files, index,
                 step, missing, browserError, applied, attempts, outcomes,
                 printed, answer, added, template, seo_keywords, video_title,
                 description, second_line, default_tag, default_chip,
                 tags_value, uploaded, at, clock, renders, found, calls,
                 console >>

FindThumbnail ==
    /\ pc = "resolve"
    /\ Len(trace) < MaxCalls
    /\ LET r == find_thumbnail(dir, video_files[index])
       IN /\ paths' = [paths EXCEPT !.thumbnail_path = r]
          /\ trace' = Append(trace, Call("find_thumbnail", dir, r))
    /\ UNCHANGED dir
    /\ SidecarFrame

FindKeywords ==
    /\ pc = "resolve"
    /\ Len(trace) < MaxCalls
    /\ LET r == find_keywords(dir, video_files[index])
       IN /\ paths' = [paths EXCEPT !.keywords_path = r]
          /\ trace' = Append(trace, Call("find_keywords", dir, r))
    /\ UNCHANGED dir
    /\ SidecarFrame

FindTags ==
    /\ pc = "resolve"
    /\ Len(trace) < MaxCalls
    /\ LET r == find_tags(dir, video_files[index])
       IN /\ paths' = [paths EXCEPT !.tags_path = r]
          /\ trace' = Append(trace, Call("find_tags", dir, r))
    /\ UNCHANGED dir
    /\ SidecarFrame

\* a file appears in the folder between two calls
AddSidecar ==
    /\ pc = "resolve"
    /\ Len(dir) < MaxSidecars
    /\ \E f \in SidecarUniverse \ Range(dir) : dir' = Append(dir, f)
    /\ UNCHANGED << paths, trace >>
    /\ SidecarFrame

SidecarNext ==
    \/ FindThumbnail
    \/ FindKeywords
    \/ FindTags
    \/ AddSidecar

SpecSidecar == SidecarInit /\ [][SidecarNext]_vars

(***************************************************************************)
(* uploader.py: set_video_tags, with the strings it handles.               *)
(*                                                                         *)
(* upload_video has reached set_video_tags.  second_line is what           *)
(* f.readline() returns after next(f); the console shows a default tag     *)
(* chip or none.                                                           *)
(***************************************************************************)
LineLengths ==
    { 0, ShortLine, MaxTags - MaxChip - 2, MaxTags - 2, MaxTags - 1, MaxTags,
      MaxTags + 1, MaxLine }

ChipLengths == { 1, MaxChip }

TagsInit ==
    /\ Called("tags")
    /\ NoBrowser
    /\ step = "set_video_tags"
    /\ dir \in { << File("a", ".mp4") >>, << File("a", ".mp4"), File("a", ".txt") >> }
    /\ paths = [thumbnail_path |-> find_thumbnail(dir, video_files[index]),
                keywords_path |-> find_keywords(dir, video_files[index]),
                tags_path |-> find_tags(dir, video_files[index])]
    /\ trace = << >>
    /\ template = << >>
    /\ seo_keywords = << >>
    /\ video_title = ""
    /\ description = << >>
    /\ second_line \in { << Segment("second_line", n) >> : n \in LineLengths \ { 0 } }
                         \cup { << >> }
    /\ \/ default_chip = "absent" /\ default_tag = << >>
       \/ /\ default_chip = "present"
          /\ default_tag \in { << Segment("default_tag", n) >> : n \in ChipLengths }
    /\ tags_value = << >>

\* set_video_tags as SetVideoTags runs it, with the chip and the string
\* written; lines is the number of lines the tags file has when it is read
SetVideoTagsText ==
    /\ pc = "tags"
    /\ step = "set_video_tags"
    /\ \E show_more_button \in WaitResults, read \in ActionResults,
          label \in Labels, lines \in { 0, 2 }, chip \in WaitResults,
          delete_icon \in WaitResults, c \in ClickResults,
          s \in ActionResults, tags_input \in WaitResults,
          write \in ActionResults :
         LET e == expand_more_options(show_more_button, read, label)
             b == tags_body(paths.tags_path, lines, chip, delete_icon, c, s,
                            tags_input, write)
             r == set_video_tags(e, b)
             del == e.exc = "ok"
                      /\ deleted(paths.tags_path, lines, chip, delete_icon, c, s)
         IN /\ default_chip = "absent" => chip = "TimeoutException"
            /\ trace' = trace \o entered(step)
            /\ missing' = missing \cup r.missing
            /\ browserError' = (browserError \/ r.error)
            /\ applied' = applied \cup r.applied
            /\ step' = next_step(step)
            /\ default_chip' = IF del THEN "removed" ELSE default_chip
            /\ tags_value' = IF "tags" \in r.applied
                             THEN truncate(tags_text(second_line, default_tag, del))
                             ELSE tags_value
    /\ UNCHANGED << pc, driver, session, quits, mainError, dir, run, video_files,
                    index, paths, attempts, outcomes, printed, answer, added,
                    template, seo_keywords, video_title, description,
                    second_line, default_tag, uploaded >>
    /\ UNCHANGED browser

TagsNext == SetVideoTagsText

SpecTags == TagsInit /\ [][TagsNext]_vars

(***************************************************************************)
(* uploader.py: set_video_description, with the text it handles.           *)
(*                                                                         *)
(* upload_video has reached set_video_description.  template is the       *)
(* innerText of the description field, seo_keywords the stripped keywords  *)
(* of the first line of the sidecar (one empty keyword for an empty line). *)
(***************************************************************************)
Tokens == { "KEYWORD", "TITLE", "x" }

KeywordTexts == { "alpha", "beta", "TITLE", "" }

Templates ==
    UNION { { [i \in 1..n |-> Word(w[i], << "template", 0 >>)] :
                w \in [1..n -> Tokens] } : n \in 0..MaxWords }

KeywordLists == UNION { [1..n -> KeywordTexts] : n \in 1..MaxKeywords }

DescriptionInit ==
    /\ Called("describe")
    /\ NoBrowser
    /\ step = "set_video_description"
    /\ dir \in { << File("a", ".mp4") >>, << File("a", ".mp4"), File("a", ".txt") >> }
    /\ paths = [thumbnail_path |-> find_thumbnail(dir, video_files[index]),
                keywords_path |-> find_keywords(dir, video_files[index]),
                tags_path |-> find_tags(dir, video_files[index])]
    /\ trace = << >>
    /\ template \in Templates
    /\ IF paths.keywords_path = None THEN seo_keywords = << >>
       ELSE seo_keywords \in KeywordLists
    /\ video_title = video_files[index].name
    /\ description = << >>
    /\ second_line = << >>
    /\ default_tag = << >>
    /\ default_chip = "absent"
    /\ tags_value = << >>

\* set_video_description as SetVideoDescription runs it, with the text
\* written
SetVideoDescriptionText ==
    /\ pc = "describe"
    /\ step = "set_video_description"
    /\ \E description_input \in WaitResults, script \in ActionResults :
         LET text == substitute(template, seo_keywords, video_title)
             r == set_video_description(paths.keywords_path, description_input,
                                        IF empty(text) THEN "" ELSE "text",
                                        script)
         IN /\ trace' = trace \o entered(step)
            /\ missing' = missing \cup r.missing
            /\ browserError' = (browserError \/ r.error)
            /\ applied' = applied \cup r.applied
            /\ step' = IF r.exc = "ok" THEN next_step(step) ELSE "Idle"
            /\ outcomes' = IF r.exc = "ok" THEN outcomes
                           ELSE Append(outcomes, handler(r.exc))
            /\ description' = IF "description" \in r.applied THEN text
                              ELSE description
    /\ UNCHANGED << pc, driver, session, quits, mainError, dir, run, video_files,
                    index, paths, attempts, printed, answer, added, template,
                    seo_keywords, video_title, second_line, default_tag,
                    default_chip, tags_value, uploaded >>
    /\ UNCHANGED browser

DescriptionNext == SetVideoDescriptionText

SpecDescription == DescriptionInit /\ [][DescriptionNext]_vars

(***************************************************************************)
(* uploader.py: navigate_to_upload_page, wait_for_input_fields and         *)
(* set_video_title, call by call.                                          *)
(*                                                                         *)
(* upload_video is at one of these methods; when it is at the first, an    *)
(* earlier call for another video may have ended in any way and may have   *)
(* left its dialog open.  The seconds of each wait are counted.            *)
(***************************************************************************)
Followed == { "navigate_to_upload_page", "wait_for_input_fields", "set_video_title" }

Waits == { "until", "safe_find_element" }

\* the operation the method followed is at
Current == plan(step)[at]

AtOp(kinds) ==
    /\ pc = "browser"
    /\ step \in Followed
    /\ at \in 1..Len(plan(step))
    /\ Current.kind \in kinds

\* method m goes to place k of its plan; a wait that begins there begins
\* at second 0 and has its element there from some second on, or never
Advance(m, k) ==
    /\ at' = k
    /\ IF k \in 1..Len(plan(m)) /\ plan(m)[k].kind \in Waits
       THEN clock' = 0 /\ renders' \in RenderTimes(plan(m)[k].timeout)
       ELSE UNCHANGED << clock, renders >>

BrowserInit ==
    /\ pc = "browser"
    /\ driver = "handle"
    /\ session = "open"
    /\ quits = 0
    /\ mainError = "none"
    /\ run = 1
    /\ step \in Followed
    /\ outcomes \in IF step = "navigate_to_upload_page"
                   THEN { << >>, << "Success" >>, << "Timeout" >>, << "Failed" >> }
                   ELSE { << >> }
    /\ video_files = IF outcomes = << >> THEN << File("a", ".mp4") >>
                     ELSE << File("b", ".mov"), File("a", ".mp4") >>
    /\ dir = video_files
    /\ index = Len(video_files)
    /\ attempts = video_files
    /\ printed = IF outcomes = << >> THEN << >>
                 ELSE IF outcomes = << "Success" >> THEN << << 1, "uploaded" >> >>
                 ELSE << << 1, message(outcomes[1]) >> >>
    /\ console = IF step # "navigate_to_upload_page" THEN "dialog"
                 ELSE IF outcomes \in { << "Timeout" >>, << "Failed" >> }
                 THEN "stale"
                 ELSE "landing"
    /\ paths = NoPaths
    /\ trace = SubSeq(Body, 1, CHOOSE k \in 1..Len(Body) : Body[k] = step)
    /\ missing = {}
    /\ browserError = FALSE
    /\ applied = {}
    /\ answer = NoAnswer
    /\ added = "none"
    /\ uploaded = IF outcomes = << "Success" >>
                  THEN [video |-> File("b", ".mov"), run |-> 1]
                  ELSE NotUploaded
    /\ NoTexts
    /\ at = 1
    /\ clock = 0
    /\ renders \in IF plan(step)[1].kind \in Waits
                  THEN RenderTimes(plan(step)[1].timeout)
                  ELSE { 0 }
    /\ found = "none"
    /\ calls = << >>

\* the method goes on after a call
GoOn ==
    /\ Advance(step, at + 1)
    /\ UNCHANGED << pc, driver, session, quits, mainError, step, printed, index,
                    outcomes, uploaded >>

\* exception exc leaves the method and is handled by upload_video
Leave(exc) ==
    /\ Raise(exc, printed)
    /\ UNCHANGED << at, clock, renders >>

BrowserFrame ==
    /\ UNCHANGED << dir, run, video_files, paths, attempts, answer, added >>
    /\ UNCHANGED texts

\* self.driver.get(STUDIO_URL)
Get ==
    /\ AtOp({ "get" })
    /\ \E get \in GetResults :
         /\ calls' = Append(calls, Made("get", Current.element, get))
         /\ browserError' = (browserError \/ get # "ok")
         /\ IF get = "ok"
            THEN console' = "landing" /\ GoOn
            ELSE UNCHANGED console /\ Leave(get)
    /\ UNCHANGED << found, missing, applied, trace >>
    /\ BrowserFrame

\* a second of a wait goes by without its element
Tick ==
    /\ AtOp(Waits)
    /\ until(Current.timeout, clock, renders) = "wait"
    /\ clock' = clock + 1
    /\ UNCHANGED << pc, driver, session, quits, mainError, step, printed, index,
                    outcomes, uploaded, at, renders, found, calls, console,
                    missing, browserError, applied, trace >>
    /\ BrowserFrame

\* the wait ends: WebDriverWait(...).until returns the element or raises
\* TimeoutException, which safe_find_element catches
EndWait ==
    /\ AtOp(Waits)
    /\ until(Current.timeout, clock, renders) # "wait"
    /\ LET w == until(Current.timeout, clock, renders)
           r == IF Current.kind = "safe_find_element" THEN safe_find_element(w)
                ELSE IF w = "found" THEN "element" ELSE w
       IN /\ calls' = Append(calls, Made(Current.kind, Current.element, r))
          /\ missing' = IF w = "found" THEN missing
                        ELSE missing \cup { Current.element }
          /\ IF r \in { "element", "None" }
             THEN found' = r /\ GoOn
             ELSE UNCHANGED found /\ Leave(r)
    /\ UNCHANGED << console, browserError, applied, trace >>
    /\ BrowserFrame

\* self.safe_click(element)
SafeClick ==
    /\ AtOp({ "safe_click" })
    /\ \E c \in ClickResults, s \in ActionResults :
         /\ calls' = calls \o safe_click_calls(Current.element, c, s)
         /\ browserError' = (browserError \/ safe_click(c, s) # "ok")
         /\ IF safe_click(c, s) = "ok"
            THEN /\ console' = IF Current.element = "upload_option" THEN "dialog"
                               ELSE console
                 /\ GoOn
            ELSE UNCHANGED console /\ Leave(safe_click(c, s))
    /\ UNCHANGED << found, missing, applied, trace >>
    /\ BrowserFrame

\* if not next_button: raise Exception("Input fields not found")
Require ==
    /\ AtOp({ "require" })
    /\ LET r == wait_for_input_fields(IF found = "None" THEN "TimeoutException"
                                      ELSE "found")
       IN IF r.exc = "ok" THEN GoOn ELSE Leave(r.exc)
    /\ UNCHANGED << found, calls, console, missing, browserError, applied, trace >>
    /\ BrowserFrame

\* if title_input: clear it and type the title; else print and go on
Type ==
    /\ AtOp({ "type" })
    /\ \E clear \in ActionResults, send \in ActionResults :
         LET r == set_video_title(IF found = "None" THEN "TimeoutException"
                                  ELSE "found", clear, send)
         IN /\ calls' = IF found = "None" THEN calls
                        ELSE Append(calls, Made("send_keys", Current.element, r.exc))
            /\ browserError' = (browserError \/ r.error)
            /\ applied' = applied \cup r.applied
            /\ IF r.exc = "ok" THEN GoOn ELSE Leave(r.exc)
    /\ UNCHANGED << found, console, missing, trace >>
    /\ BrowserFrame

\* the method returns; the next statement of upload_video is entered
ReturnFromMethod ==
    /\ pc = "browser"
    /\ step \in Followed
    /\ at = Len(plan(step)) + 1
    /\ step' = next_step(step)
    /\ trace' = trace \o entered(next_step(step))
    /\ Advance(next_step(step), IF plan(next_step(step)) = << >> THEN 0 ELSE 1)
    /\ UNCHANGED << pc, driver, session, quits, mainError, printed, index,
                    outcomes, uploaded, found, calls, console, missing,
                    browserError, applied >>
    /\ BrowserFrame

BrowserNext ==
    \/ Get
    \/ Tick
    \/ EndWait
    \/ SafeClick
    \/ Require
    \/ Type
    \/ ReturnFromMethod

SpecBrowser == BrowserInit /\ [][BrowserNext]_vars

\* upload_video runs in one thread and every call returns or raises: a
\* step that can be taken is taken
SpecBrowserLive == SpecBrowser /\ WF_vars(BrowserNext)

(***************************************************************************)
(* Properties.                                                             *)
(***************************************************************************)
Last(s) == s[Len(s)]

\* upload_video has just returned to the for loop: the invocation variables
\* are those of video index - 1
JustReturned == pc = "loop" /\ index > 1

\* the result lines printed for video i
Lines(i) == { printed[k][2] : k \in { j \in 1..Len(printed) : printed[j][1] = i } }

\* the controls of steps 1 to 3
Required == { "create_button", "upload_option", "file_input", "next_button" }

\* the statements after the readiness wait
After == { "set_video_title", "set_video_description", "focus_upload_dialog",
           "upload_thumbnail", "set_video_tags", "expand_more_options",
           "finalize" }

\* C1: in every run the for loop calls upload_video for the videos of the
\* queue in queue order, each once, whatever the earlier outcomes: the calls
\* made so far are a prefix of the queue, one outcome is there for every call
\* that returned, and at the prompts (and when main has returned after them)
\* every video of the queue has been attempted and has its outcome.
C1_EveryVideoAttemptedOnce ==
    /\ Len(attempts) <= Len(video_files)
    /\ attempts = SubSeq(video_files, 1, Len(attempts))
    /\ pc = "loop" => Len(attempts) = index - 1 /\ Len(outcomes) = index - 1
    /\ pc = "upload" => Len(attempts) = index /\ Len(outcomes) = index - 1
    /\ pc \in { "exit_prompt", "restart_prompt" }
         => attempts = video_files /\ Len(outcomes) = Len(video_files)
    /\ pc = "done" /\ mainError # "setup"
         => attempts = video_files /\ Len(outcomes) = Len(video_files)

\* C1 witness: a batch of at least two videos is over, the first video did
\* not succeed, and the later ones were attempted all the same.
C1_Witness ==
    /\ pc = "exit_prompt"
    /\ Len(video_files) >= 2
    /\ outcomes[1] # "Success"
    /\ attempts = video_files
    /\ Len(outcomes) = Len(video_files)

C3_AbsentSidecarStillSuccess ==
    JustReturned /\ ~browserError /\ missing \cap Required = {}
                 /\ "description_input" \notin missing
      => Last(outcomes) = "Success"

\* C4 (as claimed, for a video that has its keywords sidecar, so that the
\* absent sidecar is not what decides): once the readiness wait is passed,
\* elements not found in steps 4 to 8 do not abort the video: with no
\* browser call raising, the outcome is Success.
C4_MissingElementNeverAborts ==
    JustReturned /\ ~browserError /\ missing \cap Required = {}
                 /\ paths.keywords_path # None
      => Last(outcomes) = "Success" /\ Last(trace) = "finalize"

\* C5 (as claimed): when the continue affordance is not found by the
\* readiness wait, the outcome is Timeout and no later step has run.
C5_ReadinessTimeoutIsTimeout ==
    JustReturned /\ "next_button" \in missing
      => Last(outcomes) = "Timeout" /\ Range(trace) \cap After = {}

C7_OneOutcomeRecorded ==
    \A i \in 1..Len(outcomes) :
        /\ Cardinality(Lines(i)) = 1
        /\ "uploaded" \in Lines(i) => outcomes[i] = "Success"

\* the order of the steps as claimed: the toggle is clicked before the
\* thumbnail is uploaded
ClaimedOrder ==
    << "navigate_to_upload_page", "select_video_file", "wait_for_input_fields",
       "set_video_title", "set_video_description", "focus_upload_dialog",
       "expand_more_options", "upload_thumbnail", "set_video_tags", "finalize" >>

\* the order of the steps with the toggle clicked in the tags step
TagsOrder ==
    << "navigate_to_upload_page", "select_video_file", "wait_for_input_fields",
       "set_video_title", "set_video_description", "focus_upload_dialog",
       "upload_thumbnail", "set_video_tags", "expand_more_options", "finalize" >>

\* the methods still to be entered when statement s is the next one
Before(s) ==
    LET k == CHOOSE i \in 1..Len(TagsOrder) : TagsOrder[i] = s
    IN SubSeq(TagsOrder, 1, k - 1)

\* C8 (as claimed): the steps of an invocation are entered in the order
\* ... set description, scroll the dialog, click the show-more toggle,
\* upload thumbnail, set tags, finalize.
C8_StepsInClaimedOrder ==
    /\ Len(trace) <= Len(ClaimedOrder)
    /\ trace = SubSeq(ClaimedOrder, 1, Len(trace))

\* C8 (amended): the steps of an invocation are entered in the order open
\* dialog, select file, await ready, set title, set description, scroll the
\* dialog, upload thumbnail, set tags (which begins by clicking the
\* show-more toggle), finalize: the steps entered so far are exactly those
\* before the next one, none skipped or repeated, and an invocation that
\* ends Success has entered all of them.
C8_StepsInOrder ==
    /\ Len(trace) <= Len(TagsOrder)
    /\ trace = SubSeq(TagsOrder, 1, Len(trace))
    /\ pc = "upload" => trace = Before(step)
    /\ JustReturned /\ Last(outcomes) = "Success" => trace = TagsOrder

\* C8 witness: an invocation ended Success after all the steps, the
\* thumbnail uploaded before the tags step clicked the toggle.
C8_Witness ==
    /\ JustReturned
    /\ Last(outcomes) = "Success"
    /\ trace = TagsOrder
    /\ { "thumbnail", "expanded", "tags" } \subseteq applied

\* C9 (as claimed): when main has returned, a browser handle that was
\* created has been released, once; and it is not released before.
C9_HandleReleasedOnce ==
    /\ pc = "done" /\ session # "none" => session = "closed" /\ quits = 1
    /\ pc # "done" => quits = 0 /\ session # "closed"

\* C10: at most one workflow is in progress: the calls of upload_video
\* that have not returned are none, or the one call for the video at the
\* loop index, made when all the earlier videos had their outcome.
C10_OneWorkflowAtATime ==
    /\ (step # "Idle") = (pc = "upload")
    /\ pc = "upload"
         => /\ Len(attempts) = Len(outcomes) + 1
            /\ index = Len(attempts)
            /\ Last(attempts) = video_files[index]
    /\ pc # "upload" /\ mainError # "upload" => Len(attempts) = Len(outcomes)

\* C10 witness: the second video's workflow is in progress and the first
\* video has its outcome.
C10_Witness ==
    /\ pc = "upload"
    /\ index = 2
    /\ step = "set_video_title"
    /\ Len(outcomes) = 1

\* the answers that mean yes and those that mean no, in any case of letters
TypedYes == { "", "y", "yes", "Y" }

TypedNo == { "n", "no", "No" }

\* the place of file f in listing d
Pos(d, f) == CHOOSE k \in 1..Len(d) : d[k] = f

\* q is listing d filtered to the names ending in .mp4, .avi or .mov: only
\* such names of d, each of them once, in the order of d
Filtered(q, d) ==
    /\ \A i \in 1..Len(q) :
           q[i] \in Range(d) /\ q[i].ext \in { ".mp4", ".avi", ".mov" }
    /\ \A f \in Range(d) :
           f.ext \in { ".mp4", ".avi", ".mov" }
             => Cardinality({ i \in 1..Len(q) : q[i] = f }) = 1
    /\ \A i, j \in 1..Len(q) : i < j => Pos(d, q[i]) < Pos(d, q[j])

\* C11: the prompts, case-insensitively and with the empty answer meaning
\* yes: yes at the exit prompt ends main (nothing runs after it), no leads
\* to the restart prompt; yes at the restart prompt leads to the scan, no
\* ends main; and whenever the for loop runs, its queue is the listing of
\* the directory as it is at that scan, filtered, so that a video added
\* between two runs is in the new queue.
C11_PromptAnswers ==
    /\ mainError = "none" /\ answer.prompt = "exit" /\ answer.typed \in TypedYes
         => pc = "done"
    /\ mainError = "none" /\ answer.prompt = "exit" /\ answer.typed \in TypedNo
         => pc = "restart_prompt"
    /\ mainError = "none" /\ answer.prompt = "restart" /\ answer.typed \in TypedYes
         => pc = "scan"
    /\ mainError = "none" /\ answer.prompt = "restart" /\ answer.typed \in TypedNo
         => pc = "done"
    /\ pc = "restart_prompt" => answer.prompt = "exit" /\ answer.typed \in TypedNo
    /\ pc = "scan" /\ run > 0
         => answer.prompt = "restart" /\ answer.typed \in TypedYes
    /\ pc = "done" /\ mainError = "none"
         => answer.prompt \in { "exit", "restart" }
    /\ pc \in { "loop", "upload" } => Filtered(video_files, dir)
    /\ added = "listed" => pc = "loop" /\ run > 1

\* C11 witness: after a restart the second scan has listed a video that was
\* added to the folder after the first run, beside an older one.
C11_Witness ==
    /\ pc = "loop"
    /\ run = 2
    /\ added = "listed"
    /\ Len(video_files) >= 2
    /\ index = 1

\* C12: an answer that is neither yes nor no, at the exit prompt or at the
\* restart prompt, leads to the exit prompt again and changes nothing else:
\* no scan, no upload, main does not return, the queue, the directory, the
\* browser session and the outcomes stay as they are.
C12_UnrecognizedReprompts ==
    [][ (pc \in { "exit_prompt", "restart_prompt" } /\ answer' # answer
           /\ answer'.typed \notin TypedYes \cup TypedNo)
        => /\ pc' = "exit_prompt"
           /\ UNCHANGED << driver, session, quits, mainError, dir, run,
                           video_files, index, added >>
           /\ UNCHANGED invocation
           /\ UNCHANGED history ]_vars

\* C12 witness: the operator declined to exit, gave an answer that is not
\* understood at the restart prompt, and is at the exit prompt again with
\* the browser session open and the queue of the run.
C12_Witness ==
    /\ pc = "exit_prompt"
    /\ answer.prompt = "restart"
    /\ answer.typed \notin TypedYes \cup TypedNo
    /\ session = "open"
    /\ quits = 0
    /\ Len(video_files) >= 1
    /\ attempts = video_files

\* C13: the queue of a run is the listing of the directory filtered to the
\* names ending in .mp4, .avi or .mov, in listing order: each such name
\* once, their order kept, and no other name.
C13_QueueIsFilteredListing ==
    pc \in { "loop", "upload" } => Filtered(video_files, dir)

\* C13 witness: a listing of three names with one that is not a video
\* between two videos, one of them an .avi; the queue holds the two videos.
C13_Witness ==
    /\ pc = "loop"
    /\ index = 1
    /\ Len(dir) = 3
    /\ dir[2].ext \notin { ".mp4", ".avi", ".mov" }
    /\ video_files = << dir[1], dir[3] >>
    /\ ".avi" \in { dir[1].ext, dir[3].ext }

\* the preference lists of the resolvers, as the specification gives them
Preference(c) ==
    IF c = "find_thumbnail"
    THEN [e \in { ".jpg", ".jpeg", ".png", ".gif" } |->
            CASE e = ".jpg" -> 1 [] e = ".jpeg" -> 2 [] e = ".png" -> 3
              [] e = ".gif" -> 4]
    ELSE [e \in { ".txt", ".md", ".json" } |->
            CASE e = ".txt" -> 1 [] e = ".md" -> 2 [] e = ".json" -> 3]

\* the files of folder l that resolver c may return for video v
Candidates(c, l, v) ==
    { f \in l : f.name = v.name /\ f.ext \in DOMAIN Preference(c) }

\* C14: every call of a resolver returns the file with the basename of the
\* video whose extension comes first in the preference list of the
\* resolver among those present, and absent when none is present; with
\* a.jpg and a.png present find_thumbnail returns a.jpg; two calls of one
\* resolver on the same folder return the same.
C14_FirstPreferredSidecar ==
    pc = "resolve" =>
      /\ \A k \in 1..Len(trace) :
           LET t == trace[k]
               cands == Candidates(t.call, t.listing, video_files[index])
           IN /\ cands = {} <=> t.result = None
              /\ cands # {} =>
                   /\ t.result \in cands
                   /\ \A f \in cands :
                        Preference(t.call)[t.result.ext]
                          <= Preference(t.call)[f.ext]
              /\ (t.call = "find_thumbnail"
                    /\ { File("a", ".jpg"), File("a", ".png") } \subseteq t.listing)
                   => t.result = File("a", ".jpg")
      /\ \A k, l \in 1..Len(trace) :
           trace[k].call = trace[l].call /\ trace[k].listing = trace[l].listing
             => trace[k].result = trace[l].result

\* C14 witness: a folder that lists a.png before a.jpg, and the thumbnail of
\* another video; find_thumbnail was called twice and returned a.jpg twice.
C14_Witness ==
    /\ pc = "resolve"
    /\ dir = << File("a", ".png"), File("b", ".jpg"), File("a", ".jpg") >>
    /\ Len(trace) = 2
    /\ trace[1].call = "find_thumbnail"
    /\ trace[2].call = "find_thumbnail"
    /\ trace[1].listing = trace[2].listing
    /\ paths.thumbnail_path = File("a", ".jpg")

\* the i-th character of string t: the text it is cut from and its place
\* in that text
RECURSIVE CharAt(_, _)
CharAt(t, i) ==
    IF i <= t[1].len THEN << t[1].of, i >> ELSE CharAt(Tail(t), i - t[1].len)

\* the number of characters of string t
Size(t) ==
    LET RECURSIVE Sum(_)
        Sum(k) == IF k = 0 THEN 0 ELSE t[k].len + Sum(k - 1)
    IN Sum(Len(t))

\* p is the string of the first n characters of t
FirstChars(p, t, n) ==
    /\ Size(p) = n
    /\ \A i \in 1..n : CharAt(p, i) = CharAt(t, i)

\* the combined tag string: the text of the removed default chip, if one
\* was removed, then ", ", then the second line of the sidecar
Combined ==
    IF default_chip = "removed"
    THEN default_tag \o << Segment("separator", 2) >> \o second_line
    ELSE second_line

\* C15: the string written to the tags input has at most 460 characters: it
\* is the first 460 characters of the combined tag string when that is
\* longer, and the combined tag string itself otherwise; a line of 600
\* characters gives 460, a line of 100 characters is written as it is.
C15_TagsTruncatedTo460 ==
    (pc = "tags" /\ "tags" \in applied) =>
      /\ Size(tags_value) <= 460
      /\ Size(Combined) > 460 => FirstChars(tags_value, Combined, 460)
      /\ Size(Combined) <= 460 => FirstChars(tags_value, Combined, Size(Combined))
      /\ (Size(second_line) = MaxLine /\ default_chip # "removed")
           => FirstChars(tags_value, second_line, 460)
      /\ (Size(second_line) = ShortLine /\ default_chip # "removed")
           => tags_value = second_line

\* C15 witness: a second line that is short enough by itself, but too long
\* with the text of the removed chip before it; 460 characters are written.
C15_Witness ==
    /\ pc = "tags"
    /\ "tags" \in applied
    /\ default_chip = "removed"
    /\ Size(second_line) < 460
    /\ Size(Combined) > 460
    /\ Size(tags_value) = 460

\* C16: whenever set_video_tags has removed the default tag chip, it has
\* written a string to the tags input that begins with the text of the chip.
C16_DefaultTagResubmitted ==
    (pc = "tags" /\ default_chip = "removed") =>
      /\ "tags" \in applied
      /\ FirstChars(Slice(tags_value, Size(default_tag)), default_tag,
                    Size(default_tag))

\* the places of the placeholder p in the template
Places(p) == { j \in 1..Len(template) : template[j].text = p }

\* C17: in the description written, the k-th KEYWORD placeholder of the
\* template holds the k-th keyword of the list: with two placeholders and
\* the keywords alpha, beta, the first is alpha and the second beta.
C17_SuccessiveKeywords ==
    (pc = "describe" /\ "description" \in applied) =>
      \A j \in Places("KEYWORD") :
        LET k == Cardinality({ i \in Places("KEYWORD") : i <= j })
        IN k <= Len(seo_keywords) => description[j].from = << "keyword", k >>

\* C18: in the description written, the title stands at the places of the
\* TITLE placeholders of the template and nowhere else: as many insertions
\* of the title as the template has TITLE placeholders.
C18_TitleOnlyAtPlaceholders ==
    (pc = "describe" /\ "description" \in applied) =>
      /\ { j \in 1..Len(description) : description[j].from = << "title", 0 >> }
           = Places("TITLE")
      /\ Cardinality({ j \in 1..Len(description) :
                         description[j].from = << "title", 0 >> })
           = Cardinality(Places("TITLE"))

\* C19: a failure of start_chrome_debugger or setup_driver ends main before
\* any scan and any upload; and main ends in no other way than by that or
\* by an answer of the operator at the exit or the restart prompt: no
\* failure of the scan or of a video ends it.
C19_OnlySetupIsFatal ==
    /\ mainError = "setup" => pc = "done" /\ run = 0 /\ attempts = << >>
    /\ (pc = "done" /\ mainError # "setup")
         => /\ mainError = "none"
            /\ answer.prompt \in { "exit", "restart" }

\* C20: upload_video does not close or replace the browser handle: while
\* the for loop runs, before, during and after each call, whatever the
\* outcome, main's driver is the handle setup_driver returned, its session
\* is open and quit was never called.
C20_WorkflowKeepsHandle ==
    pc \in { "loop", "upload" } =>
      /\ driver = "handle"
      /\ session = "open"
      /\ quits = 0

\* C20 witness: two calls have returned, one uploaded its video and one
\* ended with an error, and main holds the open session.
C20_Witness ==
    /\ JustReturned
    /\ Len(outcomes) >= 2
    /\ "Success" \in Range(outcomes)
    /\ "Failed" \in Range(outcomes)
    /\ driver = "handle"
    /\ session = "open"

\* the places of the queue that the for loop has not passed to upload_video
\* yet
ToCome ==
    IF pc = "loop" THEN index..Len(video_files)
    ELSE IF pc = "upload" THEN (index + 1)..Len(video_files)
    ELSE {}

\* C26: no outcome is remembered across runs: in a run after a restart the
\* queue is again the whole filtered listing, and a video that an earlier
\* run has uploaded is in it and is passed to upload_video again before
\* the run reaches its prompts.
C26_UploadedVideoQueuedAgain ==
    /\ (pc \in { "loop", "upload" } /\ run > 1) => Filtered(video_files, dir)
    /\ (pc \in { "loop", "upload" } /\ uploaded.video # None /\ uploaded.run < run)
         => \E k \in ToCome : video_files[k] = uploaded.video
    /\ (pc \in { "exit_prompt", "restart_prompt" } /\ uploaded.video # None)
         => uploaded.run = run
    /\ (pc \in { "exit_prompt", "restart_prompt" } /\ mainError = "none")
         => attempts = video_files

\* C26 witness: the second run is about to pass to upload_video, as the
\* second video of its queue, a video that the first run has uploaded.
C26_Witness ==
    /\ pc = "loop"
    /\ run = 2
    /\ uploaded.run = 1
    /\ index = 2
    /\ video_files[index] = uploaded.video
    /\ Len(attempts) = 1

\* the resolvers of the keywords and of the tags agree on every folder of
\* the resolvers' specification and every video
SameLookup ==
    \A d \in SidecarDirs : \A v \in { File("a", ".mp4"), File("b", ".mov") } :
      find_keywords(d, v) = find_tags(d, v)

\* C25, as claimed: the keywords sidecar and the tags sidecar of a call of
\* upload_video are the same file or both absent, and a call that has set
\* the tags has rewritten the description.
C25_TagsImplyDescription ==
    /\ paths.keywords_path = paths.tags_path
    /\ "tags" \in applied => "description" \in applied

\* C25, amended: the two resolvers agree on every folder (checked where
\* main starts); the keywords sidecar and the tags sidecar of a call of
\* upload_video are the same file or both absent; and a call that has set
\* the tags has a sidecar and has run set_video_description to its end
\* with it before, whether or not that wrote a description.
C25_TagsImplyKeywordsRead ==
    /\ pc = "start" => SameLookup
    /\ paths.keywords_path = paths.tags_path
    /\ "tags" \in applied =>
         /\ paths.tags_path # None
         /\ paths.keywords_path = paths.tags_path
         /\ "set_video_description" \in Range(trace)

\* C25 witness: a call that has set the tags from a.txt after
\* set_video_description found the description empty and wrote nothing.
C25_Witness ==
    /\ pc = "upload"
    /\ "tags" \in applied
    /\ "description" \notin applied
    /\ paths.tags_path = File("a", ".txt")
    /\ paths.keywords_path = File("a", ".txt")
    /\ "set_video_description" \in Range(trace)

\* a method followed call by call is running
Running == pc = "browser" /\ step \in Followed /\ at \in 1..Len(plan(step))

C22_LookupReturnsElementOrNone ==
    [][ (AtOp({ "safe_find_element" }) /\ calls' # calls)
        => /\ Last(calls').call = "safe_find_element"
           /\ Last(calls').result \in { "element", "None" }
           /\ found' = Last(calls').result
           /\ found' = "element" <=> renders <= clock
           /\ found' = "None" <=> (clock = Current.timeout /\ renders > clock)
           /\ at' = at + 1
           /\ UNCHANGED << pc, step, outcomes, printed, index >> ]_vars

\* C22 witness: the title field was not found in 10 seconds; set_video_title
\* has gone on and returned, and the call of upload_video goes on with no
\* outcome recorded.
C22_Witness ==
    /\ pc = "browser"
    /\ step = "set_video_description"
    /\ "title_input" \in missing
    /\ found = "None"
    /\ clock = 10
    /\ outcomes = << >>

\* the places of the calls of kind c
CallsOf(c) == { i \in 1..Len(calls) : calls[i].call = c }

\* the scripted click is a fallback only: it follows a click on the same
\* element that was intercepted; after a click that succeeded or failed
\* otherwise there is none; after an intercepted click there is one
FallbackOnly ==
    /\ \A j \in CallsOf("script_click") :
         /\ j > 1
         /\ calls[j - 1].call = "click"
         /\ calls[j - 1].on = calls[j].on
         /\ calls[j - 1].result = "ElementClickInterceptedException"
    /\ \A i \in CallsOf("click") :
         IF calls[i].result = "ElementClickInterceptedException"
         THEN /\ i < Len(calls)
              /\ calls[i + 1].call = "script_click"
              /\ calls[i + 1].on = calls[i].on
         ELSE i = Len(calls) \/ calls[i + 1].call # "script_click"

\* every click of navigate_to_upload_page is a safe_click, and the create
\* button and the upload entry are clicked
RequiredThroughFallback ==
    LET p == plan("navigate_to_upload_page")
    IN /\ \A k \in 1..Len(p) : p[k].kind # "click"
       /\ { p[k].element : k \in { i \in 1..Len(p) : p[i].kind = "safe_click" } }
            = { "create_button", "upload_option" }

C24_NavigationFirst ==
    /\ Body[1] = "navigate_to_upload_page"
    /\ (pc \in { "browser", "loop" } /\ Len(trace) <= 2 /\ calls # << >>)
         => calls[1].call = "get" /\ calls[1].on = "STUDIO_URL"
    /\ (pc \in { "browser", "loop" } /\ console = "stale")
         => \A i \in 1..Len(calls) : calls[i].call = "get" /\ calls[i].result # "ok"
    /\ (pc = "browser" /\ step = "navigate_to_upload_page" /\ at > 1)
         => console # "stale"

\* C24 witness: the call before ended with Timeout; this call has gone to
\* STUDIO_URL first, then clicked its way to a dialog of its own.
C24_Witness ==
    /\ pc = "browser"
    /\ outcomes = << "Timeout" >>
    /\ index = 2
    /\ calls # << >>
    /\ calls[1] = Made("get", "STUDIO_URL", "ok")
    /\ Last(calls).on = "upload_option"
    /\ console = "dialog"

====
